---- MODULE Spec2Model ----
(***************************************************************************)
(* Model of the wyoming-onnx-asr session protocol engine:                  *)
(*   src/wyoming_onnx_asr/handler.py   NemoAsrEventHandler                 *)
(*   src/wyoming_onnx_asr/__main__.py  main (registry, shared model lock)  *)
(*                                                                         *)
(* Every connection is served by one NemoAsrEventHandler running as a      *)
(* coroutine on a single asyncio event loop.  A step of the model is the   *)
(* code a coroutine runs between two suspension points (await).            *)
(* model.recognize is a plain synchronous call: while it runs, the event   *)
(* loop thread is occupied and no other coroutine takes a step.            *)
(***************************************************************************)
EXTENDS Integers, Sequences, FiniteSets, TLC

\* ------------------------------------------------------------------ bounds
\* connections the server accepts
NumSessions == 2
\* audio chunks of one utterance
MaxChunks == 2

Sess == 1 .. NumSessions

\* ------------------------------------------------------------- value sets
\* Python's None, as a value comparable with the language strings
None == "<None>"

\* keys of the models dict built by main()
Tags == {"en", "multi"}

\* languages a Transcribe event may carry (None and "" included)
Languages == {None, "", "en", "nl"}

\* declared formats (rate, width, channels) and payloads of AudioChunk events
Formats == {<<16000, 2, 1>>}
Payloads == {"pcm"}
Chunks == [rate : {f[1] : f \in Formats}, width : {f[2] : f \in Formats},
           channels : {f[3] : f \in Formats}, audio : Payloads]

\* content of the file at _wav_path before the first wave.open
NoWav == [rate |-> 0, width |-> 0, channels |-> 0, frames |-> <<>>]

\* waveform and sample_rate before sf.read has run
NoWaveform == [samples |-> <<>>, sample_rate |-> 0]

\* mutant of ReadWav: the samples come out in reverse order
ReadWav_Reversed(w) ==
    [samples |-> [i \in DOMAIN w.frames |->
                    [pcm |-> w.frames[Len(w.frames) + 1 - i],
                     dtype |-> "float32",
                     mono |-> IF w.channels > 1 THEN "mean" ELSE "as read"]],
     sample_rate |-> w.rate]

\* sf.read(path, dtype="float32"), then the mean over the channels if there
\* are several: every payload decoded in file order, at the file's rate
ReadWav(w) ==
    [samples |-> [i \in DOMAIN w.frames |->
                    [pcm |-> w.frames[i], dtype |-> "float32",
                     mono |-> IF w.channels > 1 THEN "mean" ELSE "as read"]],
     sample_rate |-> w.rate]

VARIABLES
    main_pc,           \* position of main()
    args,              \* the parsed command line
    exit_code,         \* {} while the process runs, {n} after sys.exit(n)
    wyoming_info,      \* the Info built by main(), given to every handler
    peer_gone,         \* the client of the session has closed its end
    transcribe_name,   \* history: name field of the last Transcribe handled
    models,            \* keys of the models dict shared by all handlers
    lock_holder,       \* model_lock: the session that locked it, or 0
    waiters,           \* model_lock: sessions suspended in acquire(), FIFO
    pc,                \* position of each session's handler coroutine
    request_language,  \* self.request_language
    transcribe_seen,   \* history: a Transcribe event was handled
    wav_open,          \* self._wav_file is not None
    wav_data,          \* content of the file at self._wav_path
    received,          \* history: AudioChunk events handled since the open
    waveform,          \* local waveform, sample_rate of the audio-stop branch
    lang,              \* local lang of the audio-stop branch
    model,             \* local model of the audio-stop branch (its tag)
    out                \* events written to the session's connection

\* what main() writes before it serves
startup == <<main_pc, args, exit_code, wyoming_info>>

vars == <<startup, peer_gone, transcribe_name, models, lock_holder, waiters, pc, request_language, transcribe_seen,
          wav_open, wav_data, received, waveform, lang, model, out>>

\* no session holds the lock
NoSession == 0

PcValues == {"new", "read", "acquire", "recognize", "write_unresolved",
             "write_failed", "write_text", "closed", "crashed",
             "disconnected"}

\* ------------------------------------------------------------ pure helpers
\* Python truthiness of an Optional[str]
Truthy(l) == l # None /\ l # ""

\* mutant of EffectiveLanguage: no default
EffectiveLanguage_NoDefault(l) == l

\* lang = self.request_language or "en"
EffectiveLanguage(l) == IF Truthy(l) THEN l ELSE "en"

\* mutant of ResolveModel: the multilingual branch is tried first
ResolveModel_MultiFirst(ms, l) ==
    IF "multi" \in ms THEN "multi"
    ELSE IF "en" \in ms THEN "en"
    ELSE None

\* mutant of ResolveModel: the last elif is missing
ResolveModel_NoFallback(ms, l) ==
    IF l = "en" /\ "en" \in ms THEN "en"
    ELSE IF "multi" \in ms THEN "multi"
    ELSE None

\* the if/elif/elif chain choosing the model; None when no branch applies
ResolveModel(ms, l) ==
    IF l = "en" /\ "en" \in ms THEN "en"
    ELSE IF "multi" \in ms THEN "multi"
    ELSE IF "en" \in ms THEN "en"
    ELSE None

\* ---- the Info built by main() from the two model names
DefaultModelEn == "nemo-parakeet-tdt-0.6b-v2"
DefaultModelMulti == "whisper-base"

EnglishModel(n) ==
    [name |-> n, description |-> <<"English model: ", n>>,
     languages |-> <<"en">>]

MultilingualModel(n) ==
    [name |-> n, description |-> <<"Multilingual model: ", n>>,
     languages |-> <<"*">>]

\* mutant of AsrModels: the multilingual entry is left out
AsrModels_EnglishOnly(en, multi) ==
    IF en # None THEN <<EnglishModel(en)>> ELSE <<>>

\* asr_models: an entry for each name that is not None, English first
AsrModels(en, multi) ==
    (IF en # None THEN <<EnglishModel(en)>> ELSE <<>>)
        \o (IF multi # None THEN <<MultilingualModel(multi)>> ELSE <<>>)

\* Info(asr=[AsrProgram(name="onnx-asr", ..., models=asr_models)])
WyomingInfo(en, multi) ==
    [asr |-> <<[name |-> "onnx-asr", models |-> AsrModels(en, multi)]>>]

\* the info field of an event that is no Info
NoInfo == [asr |-> <<>>]

\* Transcript events; text is kept as its parts
\*   "ERROR: Language '<l>' is not supported. Available models: <keys>"
\*   "ERROR: No ASR model is available for transcription"
UnresolvedTranscript(l, ms) ==
    IF Truthy(l)
    THEN [type |-> "transcript", error |-> TRUE, what |-> "not supported",
          language |-> l, models |-> ms, info |-> NoInfo]
    ELSE [type |-> "transcript", error |-> TRUE, what |-> "no model",
          language |-> None, models |-> {}, info |-> NoInfo]

\*   "ERROR: Transcription failed: <e>"
FailedTranscript ==
    [type |-> "transcript", error |-> TRUE, what |-> "failed",
     language |-> None, models |-> {}, info |-> NoInfo]

\*   Transcript(text=text): what model m recognized, asked for language l
TextTranscript(m, l) ==
    [type |-> "transcript", error |-> FALSE, what |-> "text",
     language |-> l, models |-> {m}, info |-> NoInfo]

\* wyoming_info.event(), the event written for a Describe
InfoEvent(i) ==
    [type |-> "info", error |-> FALSE, what |-> "info",
     language |-> None, models |-> {}, info |-> i]

\* the synchronous recognize call occupies the event loop thread
LoopFree == \A t \in Sess : pc[t] # "recognize"

\* a transcript event is among the events written to s
TranscriptCount(s) ==
    Cardinality({i \in DOMAIN out[s] : out[s][i].type = "transcript"})

\* s is inside the async with block: recognize running, or its failure
\* being reported
InGuard(s) == pc[s] \in {"recognize", "write_failed"}

\* mutants of AcquireAtOnce
AcquireAtOnce_NoLock(s) == TRUE

AcquireAtOnce_PerBackend(s) ==
    \A t \in Sess :
        InGuard(t) =>
            model[t] # ResolveModel(models, EffectiveLanguage(request_language[s]))

\* mutant of AcquireAtOnce: an unlocked lock is taken past the waiters
AcquireAtOnce_Barging(s) == lock_holder = NoSession

\* acquire() of the lock shared by all sessions and all models returns to
\* session s at once: unlocked and nobody queued before it
AcquireAtOnce(s) == lock_holder = NoSession /\ waiters = <<>>

\* ------------------------------------------------------------------- Init
\* NemoAsrEventHandler is built over any models dict; main() builds it
Init ==
    /\ main_pc = "serving"
    /\ args = [model_en |-> DefaultModelEn, model_multilingual |-> DefaultModelMulti,
               uri |-> "tcp://"]
    /\ exit_code = {}
    /\ models \in SUBSET Tags
    /\ wyoming_info =
          WyomingInfo(IF "en" \in models THEN DefaultModelEn ELSE None,
                      IF "multi" \in models THEN DefaultModelMulti ELSE None)
    /\ peer_gone = [s \in Sess |-> FALSE]
    /\ transcribe_name = [s \in Sess |-> None]
    /\ lock_holder = NoSession
    /\ waiters = <<>>
    /\ pc = [s \in Sess |-> "new"]
    /\ request_language = [s \in Sess |-> None]
    /\ transcribe_seen = [s \in Sess |-> FALSE]
    /\ wav_open = [s \in Sess |-> FALSE]
    /\ wav_data = [s \in Sess |-> NoWav]
    /\ received = [s \in Sess |-> <<>>]
    /\ waveform = [s \in Sess |-> NoWaveform]
    /\ lang = [s \in Sess |-> None]
    /\ model = [s \in Sess |-> None]
    /\ out = [s \in Sess |-> <<>>]

\* ---------------------------------------------------------------- actions
\* a connection is accepted: the handler factory runs __init__
Connect(s) ==
    /\ pc[s] = "new"
    /\ LoopFree
    /\ pc' = [pc EXCEPT ![s] = "read"]
    /\ request_language' = [request_language EXCEPT ![s] = None]
    /\ wav_open' = [wav_open EXCEPT ![s] = FALSE]
    /\ UNCHANGED <<startup, peer_gone, models, lock_holder, waiters, transcribe_seen, transcribe_name, wav_data, received, waveform,
                   lang, model, out>>

\* the declared format of a chunk or of the wave file
Format(c) == <<c.rate, c.width, c.channels>>

\* mutant of HandleAudioChunk: every chunk sets the format of the file
HandleAudioChunk_Relatch(s, chunk) ==
    /\ pc[s] = "read"
    /\ \A t \in Sess : pc[t] # "recognize"
    /\ wav_data' = [wav_data EXCEPT ![s] =
          [rate |-> chunk.rate, width |-> chunk.width,
           channels |-> chunk.channels,
           frames |-> IF ~wav_open[s] THEN <<chunk.audio>>
                      ELSE Append(@.frames, chunk.audio)]]
    /\ wav_open' = [wav_open EXCEPT ![s] = TRUE]
    /\ received' = [received EXCEPT ![s] =
          IF ~wav_open[s] THEN <<chunk>> ELSE Append(@, chunk)]
    /\ UNCHANGED <<startup, peer_gone, models, lock_holder, waiters, pc,
                   request_language, transcribe_seen, transcribe_name,
                   waveform, lang, model, out>>

\* mutant of HandleAudioChunk: a chunk of another format is not written
HandleAudioChunk_Strict(s, chunk) ==
    /\ pc[s] = "read"
    /\ \A t \in Sess : pc[t] # "recognize"
    /\ wav_data' = [wav_data EXCEPT ![s] =
          IF ~wav_open[s]
          THEN [rate |-> chunk.rate, width |-> chunk.width,
                channels |-> chunk.channels, frames |-> <<chunk.audio>>]
          ELSE IF Format(chunk) = Format(@)
          THEN [@ EXCEPT !.frames = Append(@, chunk.audio)]
          ELSE @]
    /\ wav_open' = [wav_open EXCEPT ![s] = TRUE]
    /\ received' = [received EXCEPT ![s] =
          IF ~wav_open[s] THEN <<chunk>> ELSE Append(@, chunk)]
    /\ UNCHANGED <<startup, peer_gone, models, lock_holder, waiters, pc,
                   request_language, transcribe_seen, transcribe_name,
                   waveform, lang, model, out>>

\* mutant of HandleAudioChunk: chunks are taken while a write is awaited
HandleAudioChunk_Pipelined(s, chunk) ==
    /\ pc[s] \in {"read", "write_unresolved", "write_failed", "write_text"}
    /\ \A t \in Sess : pc[t] # "recognize"
    /\ wav_data' = [wav_data EXCEPT ![s] =
          IF ~wav_open[s]
          THEN [rate |-> chunk.rate, width |-> chunk.width,
                channels |-> chunk.channels, frames |-> <<chunk.audio>>]
          ELSE [@ EXCEPT !.frames = Append(@, chunk.audio)]]
    /\ wav_open' = [wav_open EXCEPT ![s] = TRUE]
    /\ received' = [received EXCEPT ![s] =
          IF ~wav_open[s] THEN <<chunk>> ELSE Append(@, chunk)]
    /\ UNCHANGED <<startup, peer_gone, models, lock_holder, waiters, pc,
                   request_language, transcribe_seen, transcribe_name,
                   waveform, lang, model, out>>

\* mutant of HandleAudioChunk: the file is opened anew for every chunk
HandleAudioChunk_Reopen(s, chunk) ==
    /\ pc[s] = "read"
    /\ \A t \in Sess : pc[t] # "recognize"
    /\ wav_data' = [wav_data EXCEPT ![s] =
          [rate |-> chunk.rate, width |-> chunk.width,
           channels |-> chunk.channels, frames |-> <<chunk.audio>>]]
    /\ wav_open' = [wav_open EXCEPT ![s] = TRUE]
    /\ received' = [received EXCEPT ![s] =
          IF ~wav_open[s] THEN <<chunk>> ELSE Append(@, chunk)]
    /\ UNCHANGED <<startup, peer_gone, models, lock_holder, waiters, pc,
                   request_language, transcribe_seen, transcribe_name,
                   waveform, lang, model, out>>

\* handle_event, AudioChunk branch
HandleAudioChunk(s, chunk) ==
    /\ pc[s] = "read"
    /\ LoopFree
    /\ wav_data' = [wav_data EXCEPT ![s] =
          IF ~wav_open[s]
          THEN [rate |-> chunk.rate, width |-> chunk.width,
                channels |-> chunk.channels, frames |-> <<chunk.audio>>]
          ELSE [@ EXCEPT !.frames = Append(@, chunk.audio)]]
    /\ wav_open' = [wav_open EXCEPT ![s] = TRUE]
    /\ received' = [received EXCEPT ![s] =
          IF ~wav_open[s] THEN <<chunk>> ELSE Append(@, chunk)]
    /\ UNCHANGED <<startup, peer_gone, models, lock_holder, waiters, pc, request_language,
                   transcribe_seen, transcribe_name, waveform, lang, model, out>>

\* mutant of HandleTranscribe: request_language is shared by the handlers
HandleTranscribe_Shared(s, n, l) ==
    /\ pc[s] = "read"
    /\ \A t \in Sess : pc[t] # "recognize"
    /\ request_language' = [t \in Sess |-> l]
    /\ transcribe_seen' = [transcribe_seen EXCEPT ![s] = TRUE]
    /\ transcribe_name' = [transcribe_name EXCEPT ![s] = n]
    /\ UNCHANGED <<startup, peer_gone, models, lock_holder, waiters, pc,
                   wav_open, wav_data, received, waveform, lang, model, out>>

\* mutant of HandleTranscribe: the request also drops the open buffer
HandleTranscribe_NewUtterance(s, n, l) ==
    /\ pc[s] = "read"
    /\ \A t \in Sess : pc[t] # "recognize"
    /\ request_language' = [request_language EXCEPT ![s] = l]
    /\ transcribe_seen' = [transcribe_seen EXCEPT ![s] = TRUE]
    /\ transcribe_name' = [transcribe_name EXCEPT ![s] = n]
    /\ wav_open' = [wav_open EXCEPT ![s] = FALSE]
    /\ UNCHANGED <<startup, peer_gone, models, lock_holder, waiters, pc,
                   wav_data, received, waveform, lang, model, out>>

\* handle_event, Transcribe branch, for Transcribe(name = n, language = l):
\* only transcribe.language is read
HandleTranscribe(s, n, l) ==
    /\ pc[s] = "read"
    /\ LoopFree
    /\ request_language' = [request_language EXCEPT ![s] = l]
    /\ transcribe_seen' = [transcribe_seen EXCEPT ![s] = TRUE]
    /\ transcribe_name' = [transcribe_name EXCEPT ![s] = n]
    /\ UNCHANGED <<startup, peer_gone, models, lock_holder, waiters, pc, wav_open, wav_data, received, waveform,
                   lang, model, out>>

\* mutant of HandleDescribe: only the entries for the pending language
HandleDescribe_Filtered(s) ==
    /\ pc[s] = "read"
    /\ \A t \in Sess : pc[t] # "recognize"
    /\ out' = [out EXCEPT ![s] = Append(@,
          InfoEvent(IF request_language[s] = "en"
                    THEN WyomingInfo(args.model_en, None)
                    ELSE wyoming_info))]
    /\ UNCHANGED <<startup, peer_gone, models, lock_holder, waiters, pc,
                   request_language, transcribe_seen, transcribe_name,
                   wav_open, wav_data, received, waveform, lang, model>>

\* handle_event, Describe branch: the Info event is written; return True
HandleDescribe(s) ==
    /\ pc[s] = "read"
    /\ LoopFree
    /\ out' = [out EXCEPT ![s] = Append(@, InfoEvent(wyoming_info))]
    /\ UNCHANGED <<startup, peer_gone, models, lock_holder, waiters, pc,
                   request_language, transcribe_seen, transcribe_name,
                   wav_open, wav_data, received, waveform, lang, model>>

\* mutant of HandleAudioStop: no assertion, the file at _wav_path is read
\* as it is
HandleAudioStop_NoAssert(s) ==
    /\ pc[s] = "read"
    /\ \A t \in Sess : pc[t] # "recognize"
    /\ LET l == EffectiveLanguage(request_language[s])
           m == ResolveModel(models, l)
       IN  /\ wav_open' = [wav_open EXCEPT ![s] = FALSE]
           /\ waveform' = [waveform EXCEPT ![s] = ReadWav(wav_data[s])]
           /\ lang' = [lang EXCEPT ![s] = l]
           /\ model' = [model EXCEPT ![s] = m]
           /\ IF m = None
              THEN /\ pc' = [pc EXCEPT ![s] = "write_unresolved"]
                   /\ UNCHANGED <<lock_holder, waiters>>
              ELSE IF lock_holder = NoSession /\ waiters = <<>>
              THEN /\ lock_holder' = s
                   /\ pc' = [pc EXCEPT ![s] = "recognize"]
                   /\ UNCHANGED waiters
              ELSE /\ waiters' = Append(waiters, s)
                   /\ pc' = [pc EXCEPT ![s] = "acquire"]
                   /\ UNCHANGED lock_holder
    /\ UNCHANGED <<startup, peer_gone, models, request_language,
                   transcribe_seen, transcribe_name, wav_data, received, out>>

\* mutant of HandleAudioStop: the file is closed only once a model is found
HandleAudioStop_CloseLate(s) ==
    /\ pc[s] = "read"
    /\ \A t \in Sess : pc[t] # "recognize"
    /\ IF ~wav_open[s]
       THEN /\ pc' = [pc EXCEPT ![s] = "crashed"]
            /\ UNCHANGED <<lock_holder, waiters, wav_open, waveform, lang,
                           model>>
       ELSE LET l == EffectiveLanguage(request_language[s])
                m == ResolveModel(models, l)
            IN  /\ waveform' = [waveform EXCEPT ![s] = ReadWav(wav_data[s])]
                /\ lang' = [lang EXCEPT ![s] = l]
                /\ model' = [model EXCEPT ![s] = m]
                /\ IF m = None
                   THEN /\ pc' = [pc EXCEPT ![s] = "write_unresolved"]
                        /\ UNCHANGED <<lock_holder, waiters, wav_open>>
                   ELSE IF lock_holder = NoSession /\ waiters = <<>>
                   THEN /\ lock_holder' = s
                        /\ wav_open' = [wav_open EXCEPT ![s] = FALSE]
                        /\ pc' = [pc EXCEPT ![s] = "recognize"]
                        /\ UNCHANGED waiters
                   ELSE /\ waiters' = Append(waiters, s)
                        /\ wav_open' = [wav_open EXCEPT ![s] = FALSE]
                        /\ pc' = [pc EXCEPT ![s] = "acquire"]
                        /\ UNCHANGED lock_holder
    /\ UNCHANGED <<startup, peer_gone, models, request_language,
                   transcribe_seen, transcribe_name, wav_data, received, out>>

\* handle_event, AudioStop branch, up to its first suspension point
HandleAudioStop(s) ==
    /\ pc[s] = "read"
    /\ LoopFree
    /\ IF ~wav_open[s]
       THEN \* assert self._wav_file is not None
            /\ pc' = [pc EXCEPT ![s] = "crashed"]
            /\ UNCHANGED <<lock_holder, waiters, wav_open, waveform, lang,
                           model>>
       ELSE LET l == EffectiveLanguage(request_language[s])
                m == ResolveModel(models, l)
            IN  /\ wav_open' = [wav_open EXCEPT ![s] = FALSE]
                /\ waveform' = [waveform EXCEPT ![s] = ReadWav(wav_data[s])]
                /\ lang' = [lang EXCEPT ![s] = l]
                /\ model' = [model EXCEPT ![s] = m]
                /\ IF m = None
                   THEN /\ pc' = [pc EXCEPT ![s] = "write_unresolved"]
                        /\ UNCHANGED <<lock_holder, waiters>>
                   ELSE IF AcquireAtOnce(s)
                   THEN /\ lock_holder' = s
                        /\ pc' = [pc EXCEPT ![s] = "recognize"]
                        /\ UNCHANGED waiters
                   ELSE /\ waiters' = Append(waiters, s)
                        /\ pc' = [pc EXCEPT ![s] = "acquire"]
                        /\ UNCHANGED lock_holder
    /\ UNCHANGED <<startup, peer_gone, models, request_language, transcribe_seen,
                   transcribe_name, wav_data, received, out>>

\* the write of the resolution diagnostic completes; return False
WriteUnresolved(s) ==
    /\ pc[s] = "write_unresolved"
    /\ LoopFree
    /\ out' = [out EXCEPT ![s] =
          Append(@, UnresolvedTranscript(request_language[s], models))]
    /\ pc' = [pc EXCEPT ![s] = "closed"]
    /\ UNCHANGED <<startup, peer_gone, models, lock_holder, waiters, request_language,
                   transcribe_seen, transcribe_name, wav_open, wav_data, received, waveform, lang, model>>

\* async with self.model_lock: the first waiter is woken by release()
\* and takes the lock, then calls recognize
AcquireResume(s) ==
    /\ pc[s] = "acquire"
    /\ LoopFree
    /\ lock_holder = NoSession
    /\ waiters # <<>>
    /\ Head(waiters) = s
    /\ waiters' = Tail(waiters)
    /\ lock_holder' = s
    /\ pc' = [pc EXCEPT ![s] = "recognize"]
    /\ UNCHANGED <<startup, peer_gone, models, request_language, transcribe_seen, transcribe_name, wav_open,
                   wav_data, received, waveform, lang, model, out>>

\* mutant of RecognizeReturn: the lock is not released on the way out
RecognizeReturn_NoRelease(s) ==
    /\ pc[s] = "recognize"
    /\ pc' = [pc EXCEPT ![s] = "write_text"]
    /\ UNCHANGED <<startup, peer_gone, models, lock_holder, waiters, request_language,
                   transcribe_seen, transcribe_name, wav_open, wav_data, received, waveform, lang, model, out>>

\* model.recognize returns; the with block is left (release), then the
\* coroutine reaches the write of the text
RecognizeReturn(s) ==
    /\ pc[s] = "recognize"
    /\ lock_holder' = NoSession
    /\ pc' = [pc EXCEPT ![s] = "write_text"]
    /\ UNCHANGED <<startup, peer_gone, models, waiters, request_language, transcribe_seen, transcribe_name,
                   wav_open, wav_data, received, waveform, lang, model, out>>

\* mutant of RecognizeRaise: the with block is left before the write
RecognizeRaise_ReleaseFirst(s) ==
    /\ pc[s] = "recognize"
    /\ lock_holder' = NoSession
    /\ pc' = [pc EXCEPT ![s] = "write_failed"]
    /\ UNCHANGED <<startup, peer_gone, models, waiters, request_language,
                   transcribe_seen, transcribe_name, wav_open, wav_data,
                   received, waveform, lang, model, out>>

\* model.recognize raises; the except clause reaches its write, lock held
RecognizeRaise(s) ==
    /\ pc[s] = "recognize"
    /\ pc' = [pc EXCEPT ![s] = "write_failed"]
    /\ UNCHANGED <<startup, peer_gone, models, lock_holder, waiters, request_language,
                   transcribe_seen, transcribe_name, wav_open, wav_data, received, waveform, lang, model, out>>

\* mutants of WriteFailed: return True; the lock is not released
WriteFailed_KeepOpen(s) ==
    /\ pc[s] = "write_failed"
    /\ \A t \in Sess : pc[t] # "recognize"
    /\ out' = [out EXCEPT ![s] = Append(@, FailedTranscript)]
    /\ lock_holder' = NoSession
    /\ pc' = [pc EXCEPT ![s] = "read"]
    /\ UNCHANGED <<startup, peer_gone, models, waiters, request_language, transcribe_seen, transcribe_name,
                   wav_open, wav_data, received, waveform, lang, model>>

WriteFailed_NoRelease(s) ==
    /\ pc[s] = "write_failed"
    /\ \A t \in Sess : pc[t] # "recognize"
    /\ out' = [out EXCEPT ![s] = Append(@, FailedTranscript)]
    /\ pc' = [pc EXCEPT ![s] = "closed"]
    /\ UNCHANGED <<startup, peer_gone, models, lock_holder, waiters, request_language,
                   transcribe_seen, transcribe_name, wav_open, wav_data, received, waveform, lang, model>>

\* the write of the failure diagnostic completes; return False leaves the
\* with block (release)
WriteFailed(s) ==
    /\ pc[s] = "write_failed"
    /\ LoopFree
    /\ out' = [out EXCEPT ![s] = Append(@, FailedTranscript)]
    /\ lock_holder' = NoSession
    /\ pc' = [pc EXCEPT ![s] = "closed"]
    /\ UNCHANGED <<startup, peer_gone, models, waiters, request_language, transcribe_seen, transcribe_name,
                   wav_open, wav_data, received, waveform, lang, model>>

\* mutant of WriteText: return True after the text
WriteText_KeepOpen(s) ==
    /\ pc[s] = "write_text"
    /\ \A t \in Sess : pc[t] # "recognize"
    /\ out' = [out EXCEPT ![s] = Append(@, TextTranscript(model[s], lang[s]))]
    /\ request_language' = [request_language EXCEPT ![s] = None]
    /\ pc' = [pc EXCEPT ![s] = "read"]
    /\ UNCHANGED <<startup, peer_gone, models, lock_holder, waiters,
                   transcribe_seen, transcribe_name, wav_open, wav_data,
                   received, waveform, lang, model>>

\* mutant of WriteText: the handler returns without writing the text
WriteText_NoWrite(s) ==
    /\ pc[s] = "write_text"
    /\ \A t \in Sess : pc[t] # "recognize"
    /\ request_language' = [request_language EXCEPT ![s] = None]
    /\ pc' = [pc EXCEPT ![s] = "closed"]
    /\ UNCHANGED <<startup, peer_gone, models, lock_holder, waiters, transcribe_seen, transcribe_name, wav_open,
                   wav_data, received, waveform, lang, model, out>>

\* the write of the text completes; request_language is reset; return False
WriteText(s) ==
    /\ pc[s] = "write_text"
    /\ LoopFree
    /\ out' = [out EXCEPT ![s] = Append(@, TextTranscript(model[s], lang[s]))]
    /\ request_language' = [request_language EXCEPT ![s] = None]
    /\ pc' = [pc EXCEPT ![s] = "closed"]
    /\ UNCHANGED <<startup, peer_gone, models, lock_holder, waiters, transcribe_seen, transcribe_name, wav_open,
                   wav_data, received, waveform, lang, model>>

\* handle_event, any other event (AudioStart, ...): return True
HandleOther(s) ==
    /\ pc[s] = "read"
    /\ LoopFree
    /\ UNCHANGED vars

\* the client closes its end of the connection; what it sent before is
\* still read and handled
PeerDisconnect(s) ==
    /\ pc[s] \notin {"new", "closed", "crashed", "disconnected"}
    /\ ~peer_gone[s]
    /\ peer_gone' = [peer_gone EXCEPT ![s] = TRUE]
    /\ UNCHANGED <<startup, transcribe_name, models, lock_holder, waiters,
                   pc, request_language, transcribe_seen, wav_open, wav_data, received, waveform,
                   lang, model, out>>

\* the read of the next event finds the connection closed: the handler's
\* loop ends; the handler defines no disconnect hook and no cleanup
ReadEof(s) ==
    /\ pc[s] = "read"
    /\ peer_gone[s]
    /\ LoopFree
    /\ pc' = [pc EXCEPT ![s] = "disconnected"]
    /\ UNCHANGED <<startup, peer_gone, transcribe_name, models, lock_holder,
                   waiters, request_language, transcribe_seen, wav_open,
                   wav_data, received, waveform, lang, model, out>>

\* mutant of WriteLost: the exception leaves the lock locked
WriteLost_NoRelease(s) ==
    /\ pc[s] \in {"write_unresolved", "write_failed", "write_text"}
    /\ peer_gone[s]
    /\ \A t \in Sess : pc[t] # "recognize"
    /\ pc' = [pc EXCEPT ![s] = "disconnected"]
    /\ UNCHANGED <<startup, peer_gone, transcribe_name, models, lock_holder,
                   waiters, request_language, transcribe_seen, wav_open,
                   wav_data, received, waveform, lang, model, out>>

\* await self.write_event raises on the closed connection: the exception
\* leaves handle_event, through the with block if the write is in it
WriteLost(s) ==
    /\ pc[s] \in {"write_unresolved", "write_failed", "write_text"}
    /\ peer_gone[s]
    /\ LoopFree
    /\ pc' = [pc EXCEPT ![s] = "disconnected"]
    /\ lock_holder' = IF pc[s] = "write_failed" THEN NoSession ELSE lock_holder
    /\ UNCHANGED <<startup, peer_gone, transcribe_name, models, waiters,
                   request_language, transcribe_seen, wav_open, wav_data, received, waveform,
                   lang, model, out>>

\* ---------------------------------------------------------- specification
\* the server with concurrent sessions: a request carries no language, the
\* default one or another one
ServerLanguages == {None, "en", "nl"}

Next ==
    \E s \in Sess :
        \/ Connect(s)
        \/ \E c \in Chunks :
              /\ Len(wav_data[s].frames) < MaxChunks \/ ~wav_open[s]
              /\ HandleAudioChunk(s, c)
        \/ \E l \in ServerLanguages : HandleTranscribe(s, None, l)
        \/ HandleAudioStop(s)
        \/ WriteUnresolved(s)
        \/ AcquireResume(s)
        \/ RecognizeReturn(s)
        \/ RecognizeRaise(s)
        \/ WriteFailed(s)
        \/ WriteText(s)

Spec == Init /\ [][Next]_vars

\* recognition is single-flight however few events the clients send; the
\* scheduler runs every coroutine that can run, and recognize terminates
LiveLanguages == {"en", "nl"}

LiveNext ==
    \E s \in Sess :
        \/ Connect(s)
        \/ \E c \in Chunks : ~wav_open[s] /\ HandleAudioChunk(s, c)
        \/ \E l \in LiveLanguages : HandleTranscribe(s, None, l)
        \/ HandleAudioStop(s)
        \/ WriteUnresolved(s)
        \/ AcquireResume(s)
        \/ RecognizeReturn(s)
        \/ RecognizeRaise(s)
        \/ WriteFailed(s)
        \/ WriteText(s)

Fairness ==
    \A s \in Sess :
        /\ WF_vars(WriteUnresolved(s))
        /\ WF_vars(AcquireResume(s))
        /\ WF_vars(RecognizeReturn(s) \/ RecognizeRaise(s))
        /\ WF_vars(WriteFailed(s))
        /\ WF_vars(WriteText(s))

LiveSpec == Init /\ [][LiveNext]_vars /\ Fairness

\* the server with clients that may close their connection at any point;
\* a request names a language other than the default one
CloseLanguages == {"nl"}

CloseNext ==
    \E s \in Sess :
        \/ Connect(s)
        \/ \E c \in Chunks : ~wav_open[s] /\ HandleAudioChunk(s, c)
        \/ \E l \in CloseLanguages : HandleTranscribe(s, None, l)
        \/ HandleAudioStop(s)
        \/ WriteUnresolved(s)
        \/ AcquireResume(s)
        \/ RecognizeReturn(s)
        \/ RecognizeRaise(s)
        \/ WriteFailed(s)
        \/ WriteText(s)
        \/ PeerDisconnect(s)
        \/ ReadEof(s)
        \/ WriteLost(s)

CloseSpec == Init /\ [][CloseNext]_vars /\ Fairness

\* the server as main() starts it: both models are loaded, so every
\* audio-stop with an open buffer resolves a model
ServedInit == Init /\ models = Tags

ServedNext ==
    \E s \in Sess :
        \/ Connect(s)
        \/ \E c \in Chunks :
              /\ Len(wav_data[s].frames) < MaxChunks \/ ~wav_open[s]
              /\ HandleAudioChunk(s, c)
        \/ \E l \in ServerLanguages : HandleTranscribe(s, None, l)
        \/ HandleAudioStop(s)
        \/ AcquireResume(s)
        \/ RecognizeReturn(s)
        \/ RecognizeRaise(s)
        \/ WriteFailed(s)
        \/ WriteText(s)

ServedSpec == ServedInit /\ [][ServedNext]_vars

\* the server goes on accepting: a new connection, with a new handler, takes
\* the place of a connection that has ended
Accept(s) ==
    /\ pc[s] \in {"closed", "crashed", "disconnected"}
    /\ LoopFree
    /\ pc' = [pc EXCEPT ![s] = "read"]
    /\ peer_gone' = [peer_gone EXCEPT ![s] = FALSE]
    /\ request_language' = [request_language EXCEPT ![s] = None]
    /\ transcribe_seen' = [transcribe_seen EXCEPT ![s] = FALSE]
    /\ transcribe_name' = [transcribe_name EXCEPT ![s] = None]
    /\ wav_open' = [wav_open EXCEPT ![s] = FALSE]
    /\ wav_data' = [wav_data EXCEPT ![s] = NoWav]
    /\ received' = [received EXCEPT ![s] = <<>>]
    /\ waveform' = [waveform EXCEPT ![s] = NoWaveform]
    /\ lang' = [lang EXCEPT ![s] = None]
    /\ model' = [model EXCEPT ![s] = None]
    /\ out' = [out EXCEPT ![s] = <<>>]
    /\ UNCHANGED <<startup, models, lock_holder, waiters>>

\* the server over time: connections end and new ones arrive while others
\* wait for the lock
QueueNext ==
    \E s \in Sess :
        \/ Connect(s)
        \/ Accept(s)
        \/ \E c \in Chunks : ~wav_open[s] /\ HandleAudioChunk(s, c)
        \/ \E l \in CloseLanguages : HandleTranscribe(s, None, l)
        \/ HandleAudioStop(s)
        \/ WriteUnresolved(s)
        \/ AcquireResume(s)
        \/ RecognizeReturn(s)
        \/ RecognizeRaise(s)
        \/ WriteFailed(s)
        \/ WriteText(s)

QueueSpec == Init /\ [][QueueNext]_vars

\* ------------------------------------------------------------------ main()
\* what argparse can return: both model options have a default, so neither
\* name is ever None; --uri is required
\* mutant of ModelEnArgs: the option has no default
ModelEnArgs_Optional == {DefaultModelEn, None}

ModelEnArgs == {DefaultModelEn, "custom-en"}
ModelMultiArgs == {DefaultModelMulti}
Uris == {"tcp://", "http://"}
ArgValues == [model_en : ModelEnArgs, model_multilingual : ModelMultiArgs,
              uri : Uris]

\* AsyncServer.from_uri knows these schemes and raises for any other
UriValid(u) == u \in {"unix://", "tcp://", "stdio://"}

NoArgs == [model_en |-> None, model_multilingual |-> None, uri |-> None]

\* the process starts: nothing parsed, nothing loaded, nobody connected
MainInit ==
    /\ main_pc = "parse"
    /\ args = NoArgs
    /\ exit_code = {}
    /\ models = {}
    /\ wyoming_info = NoInfo
    /\ peer_gone = [s \in Sess |-> FALSE]
    /\ transcribe_name = [s \in Sess |-> None]
    /\ lock_holder = NoSession
    /\ waiters = <<>>
    /\ pc = [s \in Sess |-> "new"]
    /\ request_language = [s \in Sess |-> None]
    /\ transcribe_seen = [s \in Sess |-> FALSE]
    /\ wav_open = [s \in Sess |-> FALSE]
    /\ wav_data = [s \in Sess |-> NoWav]
    /\ received = [s \in Sess |-> <<>>]
    /\ waveform = [s \in Sess |-> NoWaveform]
    /\ lang = [s \in Sess |-> None]
    /\ model = [s \in Sess |-> None]
    /\ out = [s \in Sess |-> <<>>]

sessions == <<peer_gone, transcribe_name, lock_holder, waiters, pc,
              request_language, transcribe_seen, wav_open, wav_data,
              received, waveform, lang, model, out>>

\* parse_args, then the check that a model name is given (parser.error
\* exits with status 2)
ParseArgs(a) ==
    /\ main_pc = "parse"
    /\ args' = a
    /\ IF a.model_en = None /\ a.model_multilingual = None
       THEN main_pc' = "exit" /\ exit_code' = {2}
       ELSE main_pc' = "info" /\ UNCHANGED exit_code
    /\ UNCHANGED <<wyoming_info, models, sessions>>

\* asr_models and wyoming_info are built from the names
BuildInfo ==
    /\ main_pc = "info"
    /\ wyoming_info' = WyomingInfo(args.model_en, args.model_multilingual)
    /\ main_pc' = "load_en"
    /\ UNCHANGED <<args, exit_code, models, sessions>>

\* mutant of LoadEnglish: a failed load is logged and startup goes on
LoadEnglish_GoOn(ok) ==
    /\ main_pc = "load_en"
    /\ main_pc' = "load_multi"
    /\ models' = IF args.model_en # None /\ ok THEN models \cup {"en"}
                 ELSE models
    /\ UNCHANGED <<args, exit_code, wyoming_info, sessions>>

\* the English model is loaded if it is named; ok: load_model returns
\* (it raises otherwise, and the process exits with status 1)
LoadEnglish(ok) ==
    /\ main_pc = "load_en"
    /\ IF args.model_en = None
       THEN main_pc' = "load_multi" /\ UNCHANGED <<models, exit_code>>
       ELSE IF ok
       THEN /\ models' = models \cup {"en"}
            /\ main_pc' = "load_multi"
            /\ UNCHANGED exit_code
       ELSE /\ main_pc' = "exit"
            /\ exit_code' = {1}
            /\ UNCHANGED models
    /\ UNCHANGED <<args, wyoming_info, sessions>>

\* the multilingual model, likewise
LoadMultilingual(ok) ==
    /\ main_pc = "load_multi"
    /\ IF args.model_multilingual = None
       THEN main_pc' = "validate" /\ UNCHANGED <<models, exit_code>>
       ELSE IF ok
       THEN /\ models' = models \cup {"multi"}
            /\ main_pc' = "validate"
            /\ UNCHANGED exit_code
       ELSE /\ main_pc' = "exit"
            /\ exit_code' = {1}
            /\ UNCHANGED models
    /\ UNCHANGED <<args, wyoming_info, sessions>>

\* if not models: sys.exit(1)
ValidateModels ==
    /\ main_pc = "validate"
    /\ IF models = {}
       THEN main_pc' = "exit" /\ exit_code' = {1}
       ELSE main_pc' = "uri" /\ UNCHANGED exit_code
    /\ UNCHANGED <<args, wyoming_info, models, sessions>>

\* AsyncServer.from_uri; then the lock is created and server.run serves
CreateServer ==
    /\ main_pc = "uri"
    /\ IF UriValid(args.uri)
       THEN main_pc' = "serving" /\ UNCHANGED exit_code
       ELSE main_pc' = "exit" /\ exit_code' = {1}
    /\ UNCHANGED <<args, wyoming_info, models, sessions>>

\* the listener accepts connections
Serving == main_pc = "serving"

\* bound: Describe events of one session
MaxDescribe == 1

\* the process from its start; once serving, every session sends at most
\* one chunk, and both models are loaded, so every utterance resolves
MainNext ==
    \/ \E a \in ArgValues : ParseArgs(a)
    \/ BuildInfo
    \/ \E ok \in BOOLEAN : LoadEnglish(ok)
    \/ \E ok \in BOOLEAN : LoadMultilingual(ok)
    \/ ValidateModels
    \/ CreateServer
    \/ \E s \in Sess :
        \/ Serving /\ Connect(s)
        \/ \E c \in Chunks : Serving /\ ~wav_open[s] /\ HandleAudioChunk(s, c)
        \/ \E l \in LiveLanguages : Serving /\ HandleTranscribe(s, None, l)
        \/ Serving /\ Len(out[s]) < MaxDescribe /\ HandleDescribe(s)
        \/ Serving /\ HandleAudioStop(s)
        \/ Serving /\ AcquireResume(s)
        \/ Serving /\ RecognizeReturn(s)
        \/ Serving /\ RecognizeRaise(s)
        \/ Serving /\ WriteFailed(s)
        \/ Serving /\ WriteText(s)

MainSpec == MainInit /\ [][MainNext]_vars


\* ------------------------------------------------- one connection, in full
\* the events of a single connection drawn from wider sets: a Transcribe
\* with a model name or a language (None and "" included), chunks of
\* several formats and payloads, Describe, other events, and the client
\* closing the connection while the session reads
OneSession == {1}
SessionNames == {None, DefaultModelEn, DefaultModelMulti}
SessionChunks == [rate : {16000, 22050}, width : {2}, channels : {1, 2},
                  audio : {"a", "b"}]

SessionNext ==
    \E s \in OneSession :
        \/ Connect(s)
        \/ \E c \in SessionChunks :
              /\ Len(wav_data[s].frames) < MaxChunks \/ ~wav_open[s]
              /\ HandleAudioChunk(s, c)
        \/ \E n \in SessionNames, l \in Languages :
              (n = None \/ l = None) /\ HandleTranscribe(s, n, l)
        \/ Len(out[s]) < MaxDescribe /\ HandleDescribe(s)
        \/ HandleOther(s)
        \/ HandleAudioStop(s)
        \/ WriteUnresolved(s)
        \/ RecognizeReturn(s)
        \/ RecognizeRaise(s)
        \/ WriteFailed(s)
        \/ WriteText(s)
        \/ PeerDisconnect(s)
        \/ ReadEof(s)

SessionSpec == Init /\ [][SessionNext]_vars

\* ===================================================================
\*                              PROPERTIES
\* ===================================================================

\* s has finished the handling of an audio-stop that found its buffer open
StopReturned(s) == pc[s] = "closed"

\* an "ERROR: ..." transcript is among the events written to s
ErrorWritten(s) ==
    \E i \in DOMAIN out[s] : out[s][i].type = "transcript" /\ out[s][i].error

C2_MutualExclusion ==
    /\ \A s, t \in Sess :
          s # t /\ model[s] = model[t] => ~(InGuard(s) /\ InGuard(t))
    /\ Cardinality({s \in Sess : pc[s] = "recognize"}) <= 1
    /\ \A s \in Sess : InGuard(s) => lock_holder = s

C2_Witness ==
    \E s, t \in Sess :
        /\ s # t
        /\ InGuard(s)
        /\ pc[t] = "acquire"
        /\ model[s] = model[t]

\* C3 as stated: while a session holds the guard for "en", a session whose
\* utterance resolved to "multi" is never waiting for the guard.
C3_Original ==
    \A s, t \in Sess :
        s # t /\ lock_holder = s /\ model[s] = "en" /\ model[t] = "multi"
            => pc[t] # "acquire"

\* C3 amended: one guard is shared by all backends.  While a session holds
\* it for "en", a session whose utterance resolved to "multi" and has not
\* yet been recognized is waiting for the guard: it has not started.
C3_SharedGuard ==
    \A s, t \in Sess :
        /\ s # t
        /\ lock_holder = s /\ model[s] = "en"
        /\ model[t] = "multi"
        /\ pc[t] \in {"acquire", "recognize", "write_failed"}
        => pc[t] = "acquire" /\ t \in {waiters[i] : i \in DOMAIN waiters}

C3_Witness ==
    \E s, t \in Sess :
        /\ s # t
        /\ lock_holder = s /\ model[s] = "en" /\ InGuard(s)
        /\ model[t] = "multi" /\ pc[t] = "acquire"

\* C4 as stated: after an utterance completes, by any of the three paths,
\* the pending language is unset.
C4_StateReset ==
    \A s \in Sess : StopReturned(s) => request_language[s] = None

\* C5 as stated: after the diagnostic transcript of a recoverable failure is
\* written, the connection stays open: the session reads further events.
C5_Original ==
    \A s \in Sess : ErrorWritten(s) => pc[s] = "read"

\* C5 amended: a recoverable failure is answered with one diagnostic
\* transcript and no exception leaves the handler, but the handler returns
\* the close signal as on success: the session handles no further event.
C5_DiagnosticThenClose ==
    \A s \in Sess :
        ErrorWritten(s) =>
            /\ pc[s] = "closed"
            /\ TranscriptCount(s) = 1
            /\ ~wav_open[s]

C5_Witness ==
    \E s, t \in Sess :
        /\ out[s] = <<FailedTranscript>> /\ pc[s] = "closed"
        /\ pc[t] = "read" /\ wav_open[t]

\* C6: the guard is held only by a session that is inside the guarded
\* block; a session whose stop handling has returned, by success or by a
\* recognizer exception, does not hold it.
C6_GuardReleased ==
    \A s \in Sess :
        /\ lock_holder = s => InGuard(s)
        /\ StopReturned(s) => lock_holder # s

C6_Witness ==
    \E s, t \in Sess :
        /\ s # t
        /\ StopReturned(s) /\ out[s] = <<FailedTranscript>>
        /\ lock_holder = t

\* C7: with both backends loaded and no transcribe-request handled by the
\* session, audio-stop resolves to the "en" backend, called with "en".
C7_DefaultEnglish ==
    \A s \in Sess :
        /\ models = {"en", "multi"}
        /\ ~transcribe_seen[s]
        /\ pc[s] \in {"acquire", "recognize", "write_failed", "write_text",
                      "closed"}
        => model[s] = "en" /\ lang[s] = "en"

C7_Witness ==
    \E s \in Sess :
        /\ models = {"en", "multi"}
        /\ ~transcribe_seen[s]
        /\ pc[s] = "recognize"
        /\ model[s] = "en" /\ lang[s] = "en"

\* C8: with both backends loaded, an utterance after transcribe(language =
\* "en") is recognized by "en" and one after transcribe(language = l), l any
\* other language, by "multi" called with l; whatever the other sessions
\* requested or are doing.
C8_ExplicitRouting ==
    \A s \in Sess :
        /\ models = {"en", "multi"}
        /\ pc[s] \in {"acquire", "recognize", "write_failed", "write_text"}
        => /\ request_language[s] = "en"
                => model[s] = "en" /\ lang[s] = "en"
           /\ Truthy(request_language[s]) /\ request_language[s] # "en"
                => model[s] = "multi" /\ lang[s] = request_language[s]

C8_Witness ==
    \E s, t \in Sess :
        /\ models = {"en", "multi"}
        /\ pc[s] = "closed" /\ out[s] = <<TextTranscript("multi", "nl")>>
        /\ pc[t] = "recognize" /\ request_language[t] = "en"
        /\ model[t] = "en"

\* C9 as stated: an audio-stop that finds no backend writes one ERROR
\* transcript, naming the requested language (when one was requested) and
\* the available backends, raises nothing, never takes the guard, clears
\* the pending language and leaves no buffer open.
C9_ResolutionFailure ==
    \A s \in Sess :
        pc[s] \in {"write_unresolved", "closed"} /\ model[s] = None =>
            /\ lock_holder # s
            /\ ~wav_open[s]
            /\ pc[s] = "closed" =>
                  /\ Len(out[s]) = 1
                  /\ out[s][1].type = "transcript" /\ out[s][1].error
                  /\ lang[s] # "en" =>
                        /\ out[s][1].what = "not supported"
                        /\ out[s][1].language = lang[s]
                        /\ out[s][1].models = models
                  /\ request_language[s] = None

\* C10: under a fair scheduler and a recognize that terminates, a session
\* that handled audio-stop with its buffer open eventually has its
\* transcript written, however many sessions contend for the guard.
C10_EventuallyAnswered ==
    \A s \in Sess :
        (pc[s] \in {"write_unresolved", "acquire", "recognize",
                    "write_failed", "write_text"})
            ~> (TranscriptCount(s) = 1)

C10_Witness ==
    \E s, t \in Sess :
        /\ s # t
        /\ InGuard(s)
        /\ waiters = <<t>>
        /\ pc[t] = "acquire"


\* an entry of the descriptor lists exactly these languages
Describes(i, ls) == \E k \in DOMAIN i.asr[1].models : i.asr[1].models[k].languages = ls

\* C11: the process serves only if every configured model is loaded, the
\* registry is not empty and the listen URI is valid; otherwise startup
\* ends with a non-zero exit status; no session exists unless it serves.
C11_ServeOnlyLoaded ==
    /\ Serving =>
          /\ models # {}
          /\ args.model_en # None => "en" \in models
          /\ args.model_multilingual # None => "multi" \in models
          /\ UriValid(args.uri)
          /\ exit_code = {}
    /\ ~Serving => \A s \in Sess : pc[s] = "new" /\ out[s] = <<>>
    /\ main_pc = "exit" <=> exit_code # {}
    /\ 0 \notin exit_code
    /\ main_pc \in {"validate", "uri"} =>
          /\ args.model_en # None => "en" \in models
          /\ args.model_multilingual # None => "multi" \in models
    /\ main_pc = "uri" => models # {}

C11_Witness ==
    /\ Serving
    /\ models = {"en", "multi"}
    /\ \E s \in Sess : pc[s] = "recognize"

\* C12: while serving, the descriptor has one program, and one model entry
\* for each loaded backend and no other: languages ["en"] for "en" and
\* ["*"] for "multi".
C12_DescriptorMatchesRegistry ==
    Serving =>
        /\ Len(wyoming_info.asr) = 1
        /\ Len(wyoming_info.asr[1].models) = Cardinality(models)
        /\ "en" \in models <=> Describes(wyoming_info, <<"en">>)
        /\ "multi" \in models <=> Describes(wyoming_info, <<"*">>)
        /\ \A k \in DOMAIN wyoming_info.asr[1].models :
              wyoming_info.asr[1].models[k].languages \in {<<"en">>, <<"*">>}

C12_Witness ==
    /\ Serving
    /\ models = {"en", "multi"}
    /\ \E s \in Sess : out[s] = <<InfoEvent(wyoming_info)>>
    /\ wyoming_info.asr[1].models[1].languages = <<"en">>
    /\ wyoming_info.asr[1].models[2].languages = <<"*">>


\* s is between the handling of an audio-stop and the write of its answer,
\* request_language still as the stop found it
StopPending(s) ==
    pc[s] \in {"write_unresolved", "acquire", "recognize", "write_failed",
               "write_text"}

\* C13 as stated: once a connection that was Buffering is closed and its
\* session torn down, the session holds no open wave file.
C13_TeardownReleases ==
    \A s \in Sess : pc[s] = "disconnected" => ~wav_open[s]

\* s was torn down: its handler returned or was left by an exception
TornDown(s) == pc[s] \in {"closed", "crashed", "disconnected"}

\* C14: a client closing its connection, whether its session is reading,
\* buffering, waiting for the lock or holding it, leaves the lock free of
\* that session once its handler is gone, changes no other session's
\* pending language, buffer or written events, and every other session
\* that handled its audio-stop is still answered with the transcript its
\* own request resolves to.
C14_DisconnectIsolated ==
    /\ [](\A s \in Sess :
            TornDown(s) =>
                /\ lock_holder # s
                /\ \A i \in DOMAIN waiters : waiters[i] # s)
    /\ [][\A s \in Sess :
            \/ peer_gone'[s] # peer_gone[s]
            \/ pc'[s] = "disconnected" /\ pc[s] # "disconnected"
            => \A t \in Sess \ {s} :
                  /\ pc'[t] = pc[t]
                  /\ request_language'[t] = request_language[t]
                  /\ wav_open'[t] = wav_open[t]
                  /\ wav_data'[t] = wav_data[t]
                  /\ lang'[t] = lang[t]
                  /\ model'[t] = model[t]
                  /\ out'[t] = out[t]]_vars
    /\ [](\A t \in Sess :
            pc[t] = "closed" /\ out[t] # <<>> =>
                out[t] \in {<<TextTranscript(ResolveModel(models, lang[t]),
                                             lang[t])>>,
                            <<FailedTranscript>>,
                            <<UnresolvedTranscript(request_language[t],
                                                   models)>>})
    /\ \A t \in Sess :
            StopPending(t) ~> (pc[t] \in {"closed", "disconnected"})

C14_Witness ==
    \E s, t \in Sess :
        /\ s # t
        /\ pc[s] = "disconnected" /\ model[s] # None
        /\ pc[t] = "closed" /\ ~peer_gone[t]
        /\ out[t] = <<TextTranscript(model[t], lang[t])>>
        /\ lock_holder = NoSession /\ waiters = <<>>


\* C15 as stated: after a Transcribe that carries only a model name, the
\* utterance is recognized by the backend of that name (here, with both
\* loaded, the multilingual model's name).
C15_NameRouting ==
    \A s \in Sess :
        /\ models = {"en", "multi"}
        /\ StopPending(s)
        /\ transcribe_name[s] = args.model_multilingual
        /\ request_language[s] = None
        => model[s] = "multi"

\* C16: resolution at audio-stop, for every registry R and pending language:
\* L is the pending language if set and not empty, else "en"; the backend is
\* "en" if L = "en" and "en" in R, else "multi" if in R, else "en" if in R,
\* else none.  It fails only for the empty R, and with only "en" loaded a
\* request for another language is served by "en", called with that tag.
C16_ResolutionTable ==
    \A s \in Sess :
        StopPending(s) =>
            /\ lang[s] = (IF request_language[s] \in {None, ""} THEN "en"
                          ELSE request_language[s])
            /\ model[s] =
                 (CASE models = {"en", "multi"} ->
                          (IF lang[s] = "en" THEN "en" ELSE "multi")
                    [] models = {"en"} -> "en"
                    [] models = {"multi"} -> "multi"
                    [] models = {} -> None)
            /\ model[s] = None <=> models = {}
            /\ pc[s] = "write_unresolved" <=> models = {}

C16_Witness ==
    \E s \in Sess :
        /\ models = {"en"}
        /\ request_language[s] = "nl"
        /\ pc[s] = "recognize"
        /\ model[s] = "en" /\ lang[s] = "nl"

\* C17: a step at which the pending language of a reading session changes
\* (a Transcribe) changes nothing else of the session: buffer, format,
\* frames and written events stay, as does every other session; and the
\* language an audio-stop uses is the pending one at that time, whether it
\* was set before or after the first chunk, or set back to null.
C17_TranscribeFrame ==
    /\ [][\A s \in Sess :
            pc[s] = "read" /\ request_language'[s] # request_language[s] =>
                /\ pc'[s] = "read"
                /\ transcribe_seen'[s]
                /\ wav_open' = wav_open
                /\ wav_data' = wav_data
                /\ out' = out
                /\ \A t \in Sess \ {s} :
                      request_language'[t] = request_language[t]]_vars
    /\ [](\A s \in Sess :
            StopPending(s) =>
                lang[s] = EffectiveLanguage(request_language[s]))

C17_Witness ==
    \E s \in Sess :
        /\ pc[s] = "read"
        /\ wav_open[s] /\ Len(wav_data[s].frames) = 2
        /\ transcribe_seen[s] /\ request_language[s] = None
        /\ Len(out[s]) = 1

\* C18: a step at which a session writes an event and goes on reading (a
\* Describe) writes the Info built at startup and changes neither the
\* pending language nor the buffer; every Info written to any session is
\* that same Info, which never changes while the process serves.
C18_DescribeFrame ==
    /\ [][\A s \in Sess :
            out'[s] # out[s] /\ pc'[s] = "read" =>
                /\ out'[s] = Append(out[s], InfoEvent(wyoming_info))
                /\ request_language' = request_language
                /\ wav_open' = wav_open
                /\ wav_data' = wav_data]_vars
    /\ [][Serving => wyoming_info' = wyoming_info]_vars
    /\ [](\A s \in Sess : \A i \in DOMAIN out[s] :
            out[s][i].type = "info" =>
                out[s][i].info =
                    WyomingInfo(args.model_en, args.model_multilingual))

C18_Witness ==
    \E s, t \in Sess :
        /\ s # t
        /\ wav_open[s] /\ request_language[s] = "nl"
        /\ out[s] = <<InfoEvent(wyoming_info)>>
        /\ ~wav_open[t] /\ request_language[t] = None
        /\ out[t] = <<InfoEvent(wyoming_info)>>

\* C19: a reading session has its buffer open exactly when it has taken at
\* least one chunk; a step that changes the file (an audio-chunk) leaves the
\* buffer open, opens it with that one chunk if it was not open and else
\* appends to the same file, and writes no event and keeps the pending
\* language.
C19_OneBuffer ==
    /\ [](\A s \in Sess :
            pc[s] \in {"read", "disconnected"} =>
                (wav_open[s] <=> Len(wav_data[s].frames) >= 1))
    /\ [][\A s \in Sess :
            wav_data'[s] # wav_data[s] =>
                /\ wav_open'[s]
                /\ out' = out
                /\ request_language' = request_language
                /\ ~wav_open[s] => Len(wav_data'[s].frames) = 1
                /\ wav_open[s] =>
                      /\ Len(wav_data'[s].frames) = Len(wav_data[s].frames) + 1
                      /\ SubSeq(wav_data'[s].frames, 1, Len(wav_data[s].frames))
                            = wav_data[s].frames
                      /\ wav_data'[s].rate = wav_data[s].rate
                      /\ wav_data'[s].width = wav_data[s].width
                      /\ wav_data'[s].channels = wav_data[s].channels]_vars

C19_Witness ==
    \E s \in Sess :
        /\ pc[s] = "read"
        /\ wav_open[s]
        /\ wav_data[s].frames = <<"a", "b">>
        /\ out[s] = <<>>
        /\ request_language[s] = "nl"

\* C20: from the handling of an audio-stop on, whatever its outcome, the
\* session has no open buffer: the file is closed before the language is
\* resolved; and a buffer that is opened holds the opening chunk only.
C20_NoBufferAfterStop ==
    /\ [](\A s \in Sess :
            StopPending(s) \/ pc[s] = "closed" => ~wav_open[s])
    /\ [][\A s \in Sess :
            ~wav_open[s] /\ wav_open'[s] =>
                Len(wav_data'[s].frames) = 1]_vars

C20_Witness ==
    \E s \in Sess :
        /\ pc[s] = "write_unresolved"
        /\ ~wav_open[s]
        /\ Len(wav_data[s].frames) = 2

\* the chunks of s that declare the format the file was opened with
Matching(s) ==
    SelectSeq(received[s], LAMBDA c : Format(c) = Format(received[s][1]))

\* the payloads of a sequence of chunks, in order
PayloadsOf(cs) == [i \in DOMAIN cs |-> cs[i].audio]

\* C21: from the opening of the buffer until after its finalization the
\* format of the file is the one declared by the first chunk received,
\* whatever the formats of later chunks; no step of a session with an open
\* buffer (a later chunk, an audio-start or any other event) changes it.
C21_FormatLatched ==
    /\ [](\A s \in Sess :
            wav_open[s] \/ StopPending(s) \/ pc[s] = "closed" =>
                /\ received[s] # <<>>
                /\ Format(wav_data[s]) = Format(received[s][1]))
    /\ [][\A s \in Sess :
            wav_open[s] => Format(wav_data'[s]) = Format(wav_data[s])]_vars

C21_Witness ==
    \E s \in Sess :
        /\ StopPending(s)
        /\ Len(received[s]) = 2
        /\ Format(received[s][1]) = <<16000, 2, 1>>
        /\ Format(received[s][2]) = <<22050, 2, 2>>
        /\ Format(wav_data[s]) = <<16000, 2, 1>>

\* C22 as stated: the frames of the buffer are the payloads of those chunks
\* only that declare the latched format.
C22_Original ==
    \A s \in Sess :
        wav_open[s] => wav_data[s].frames = PayloadsOf(Matching(s))

\* C22, amended: a chunk that declares another format than the latched one
\* is taken like any other: its payload is appended to the file under the
\* latched format, no event is written and the session goes on reading.
C22_MismatchTrusted ==
    [][\A s \in Sess :
         /\ wav_open[s]
         /\ Len(received'[s]) = Len(received[s]) + 1
         /\ Format(received'[s][Len(received'[s])]) # Format(wav_data[s])
         => /\ wav_data'[s].frames =
                  Append(wav_data[s].frames,
                         received'[s][Len(received'[s])].audio)
            /\ wav_open'[s]
            /\ pc'[s] = "read"
            /\ out'[s] = out[s]]_vars

C22_Witness ==
    \E s \in Sess :
        /\ pc[s] = "read" /\ wav_open[s]
        /\ Len(received[s]) = 2
        /\ Format(received[s][2]) # Format(received[s][1])
        /\ wav_data[s].frames = <<"a", "b">>

\* C23: the waveform read back at audio-stop holds, in arrival order, the
\* payload of every chunk handled since the buffer was opened, once each,
\* and the file holds them while the buffer is open; a step that is no
\* audio-chunk (Describe, Transcribe, audio-start) leaves the frames alone.
C23_Concatenation ==
    /\ [](\A s \in Sess :
            /\ wav_open[s] => wav_data[s].frames = PayloadsOf(received[s])
            /\ StopPending(s) \/ pc[s] = "closed" =>
                  /\ Len(waveform[s].samples) = Len(received[s])
                  /\ \A i \in DOMAIN received[s] :
                        waveform[s].samples[i].pcm = received[s][i].audio)
    /\ [][\A s \in Sess :
            received'[s] = received[s] =>
                wav_data'[s].frames = wav_data[s].frames]_vars

C23_Witness ==
    \E s \in Sess :
        /\ pc[s] = "recognize"
        /\ PayloadsOf(received[s]) = <<"b", "a">>
        /\ transcribe_seen[s]
        /\ Len(out[s]) = 1
        /\ Len(waveform[s].samples) = 2


\* C24: an audio-stop handled with no buffer open fails the assertion: the
\* handler is left by the exception with nothing written, the lock neither
\* taken nor queued for, no language or model resolved and the pending
\* language as it was; a session without a buffer leaves its read loop in
\* no other way.
C24_StopWhileIdle ==
    /\ [](\A s \in Sess :
            pc[s] = "crashed" =>
                /\ out[s] = <<>>
                /\ lock_holder # s
                /\ \A i \in DOMAIN waiters : waiters[i] # s
                /\ ~wav_open[s] /\ received[s] = <<>>
                /\ lang[s] = None /\ model[s] = None
                /\ waveform[s] = NoWaveform)
    /\ [][\A s \in Sess :
            pc[s] = "read" /\ ~wav_open[s] /\ pc'[s] # "read" =>
                /\ pc'[s] = "crashed"
                /\ request_language' = request_language
                /\ out' = out
                /\ lock_holder' = lock_holder
                /\ waiters' = waiters]_vars
    /\ [][\A s \in Sess : pc[s] = "crashed" => pc'[s] = "crashed"]_vars

C24_Witness ==
    \E s, t \in Sess :
        /\ pc[s] = "crashed" /\ request_language[s] = "nl"
        /\ pc[t] = "write_failed" /\ lock_holder = t


\* C25: a chunk is accepted only by a session that reads, that is one with
\* no audio-stop under way and no transcript owed; so a session whose stop
\* is being handled, or whose transcript is written, has no open buffer,
\* and a session with an open buffer has written no transcript.
C25_ResponseBeforeNextBuffer ==
    /\ [][\A s \in Sess :
            received'[s] # received[s] =>
                /\ pc[s] = "read" /\ pc'[s] = "read"
                /\ TranscriptCount(s) = 0]_vars
    /\ [](\A s \in Sess :
            wav_open[s] =>
                /\ ~StopPending(s)
                /\ TranscriptCount(s) = 0
                /\ lang[s] = None /\ waveform[s] = NoWaveform)

C25_Witness ==
    \E s \in Sess :
        /\ pc[s] = "write_text" /\ ~peer_gone[s]
        /\ ~wav_open[s]
        /\ Len(received[s]) = 2
        /\ Len(out[s]) = 1


\* C26: the lock is handed over in the order of arrival: a session starts
\* recognition either straight from its audio-stop, and then nobody is
\* waiting, or as the head of the queue; the queue only loses its head to
\* recognition and only grows at its tail, so nobody overtakes a waiter.
C26_Fifo ==
    /\ [][\A s \in Sess :
            pc'[s] = "recognize" /\ pc[s] # "recognize" =>
                \/ pc[s] = "read" /\ waiters = <<>> /\ waiters' = <<>>
                \/ /\ pc[s] = "acquire"
                   /\ waiters # <<>> /\ Head(waiters) = s
                   /\ waiters' = Tail(waiters)]_vars
    /\ [][\/ waiters' = waiters
          \/ /\ waiters # <<>>
             /\ waiters' = Tail(waiters)
             /\ pc'[Head(waiters)] = "recognize"
          \/ \E s \in Sess :
                /\ pc[s] = "read" /\ pc'[s] = "acquire"
                /\ \A i \in DOMAIN waiters : waiters[i] # s
                /\ waiters' = Append(waiters, s)]_vars
    /\ [](\A s \in Sess :
            pc[s] = "acquire" <=> \E i \in DOMAIN waiters : waiters[i] = s)

C26_Witness ==
    \E s, t \in Sess :
        /\ s # t
        /\ waiters = <<t, s>>
        /\ lock_holder = NoSession
        /\ pc[s] = "acquire" /\ pc[t] = "acquire"


\* what session s owns: its handler's fields and locals and its file
Own(s) ==
    <<request_language[s], wav_open[s], wav_data[s], received[s],
      waveform[s], lang[s], model[s], out[s]>>

\* C27: a step that changes anything a session owns (its pending language,
\* buffer, format, frames, resolved language and model, written events)
\* changes nothing another session owns, however the sessions' events
\* interleave; the language and the model of an utterance are those its own
\* pending language resolves to in the registry.
C27_Isolation ==
    /\ [][LET changed == {s \in Sess : Own(s)' # Own(s)}
          IN  \A s, t \in changed : s = t]_vars
    /\ [](\A t \in Sess :
            StopPending(t) =>
                /\ lang[t] = EffectiveLanguage(request_language[t])
                /\ model[t] = ResolveModel(models, lang[t])
                /\ waveform[t] = ReadWav(wav_data[t]))

C27_Witness ==
    \E s, t \in Sess :
        /\ pc[s] = "read" /\ pc[t] = "read"
        /\ wav_open[s] /\ wav_open[t]
        /\ request_language[s] = "nl" /\ request_language[t] = "en"
        /\ Len(wav_data[s].frames) = 2 /\ Len(wav_data[t].frames) = 1

\* C28: every write that ends the handling of an audio-stop ends the
\* session, and a step of a reading session that handles another event
\* (chunk, Transcribe, Describe) leaves it reading; so a session that has
\* answered an audio-stop has written exactly one transcript, as its last
\* event, and does nothing more.
C28_StopClosesOthersContinue ==
    /\ [][\A s \in Sess :
            StopPending(s) /\ out'[s] # out[s] =>
                pc'[s] = "closed"]_vars
    /\ [][\A s \in Sess :
            /\ pc[s] = "read"
            /\ \/ received'[s] # received[s]
               \/ request_language'[s] # request_language[s]
               \/ transcribe_seen'[s] # transcribe_seen[s]
               \/ out'[s] # out[s]
            => pc'[s] = "read"]_vars
    /\ [][\A s \in Sess :
            pc[s] = "closed" => pc'[s] = "closed" /\ Own(s)' = Own(s)]_vars
    /\ [](\A s \in Sess :
            /\ TranscriptCount(s) <= 1
            /\ pc[s] = "closed" =>
                  /\ TranscriptCount(s) = 1
                  /\ out[s][Len(out[s])].type = "transcript")

C28_Witness ==
    \E s \in Sess :
        /\ pc[s] = "closed"
        /\ transcribe_seen[s]
        /\ Len(received[s]) = 2
        /\ Len(out[s]) = 2
        /\ out[s][1].type = "info"
        /\ out[s][2] = TextTranscript(model[s], lang[s])

\* C29: the session that writes "ERROR: Transcription failed" holds the
\* lock until that write has completed, and no other session starts to
\* recognize meanwhile; the session that writes a recognized text no
\* longer holds the lock.
C29_FailureWrittenInGuard ==
    /\ [](\A s \in Sess :
            /\ pc[s] = "write_failed" => lock_holder = s
            /\ pc[s] = "write_text" => lock_holder # s)
    /\ [][\A s, t \in Sess :
            pc[s] = "write_failed" /\ pc'[s] = "write_failed" =>
                (pc'[t] = "recognize" => pc[t] = "recognize")]_vars
    /\ [][\A s \in Sess :
            pc[s] = "write_failed" /\ lock_holder' # s =>
                out'[s] = Append(out[s], FailedTranscript)]_vars

C29_Witness ==
    \E s, t \in Sess :
        /\ pc[s] = "write_failed" /\ lock_holder = s
        /\ pc[t] = "acquire" /\ waiters = <<t>>

\* C30: started through main(), the server serves only with both models
\* loaded: neither name is ever None, the checks for 'no model specified'
\* and 'no model loaded' never fire, and no audio-stop of the running
\* server fails to resolve a model.
C30_BothModelsServed ==
    /\ [](main_pc \in {"validate", "uri", "serving"} => models = Tags)
    /\ [](main_pc # "parse" =>
            args.model_en # None /\ args.model_multilingual # None)
    /\ [](exit_code \subseteq {1})
    /\ [][(main_pc = "parse" \/ main_pc = "validate") =>
              main_pc' # "exit"]_vars
    /\ [](\A s \in Sess :
            /\ pc[s] # "write_unresolved"
            /\ StopPending(s) => model[s] # None
            /\ \A i \in DOMAIN out[s] : out[s][i].what \in {"info", "text", "failed"})

C30_Witness ==
    \E s \in Sess :
        /\ Serving
        /\ args.model_en = "custom-en"
        /\ models = Tags
        /\ pc[s] = "closed"
        /\ out[s] = <<TextTranscript("multi", "nl")>>


TypeOK ==
    /\ models \in SUBSET Tags
    /\ lock_holder \in Sess \cup {NoSession}
    /\ pc \in [Sess -> PcValues]
    /\ request_language \in [Sess -> Languages]
    /\ wav_open \in [Sess -> BOOLEAN]
    /\ \A s \in Sess :
          /\ Len(received[s]) >= Len(wav_data[s].frames)
          /\ waveform[s] \in {NoWaveform, ReadWav(wav_data[s])}

====
